---- MODULE Spec2Model ----
(***************************************************************************)
(* Model of the file logger of src/logger.rs: LogLevel, LogConfig,         *)
(* RollingConfig, Logger::new and Logger::log with its five public entry   *)
(* points.  Strings are sequences of byte values (ASCII codes), so that    *)
(* file names and file contents are compared byte by byte.  The pure       *)
(* parts (the threshold catalogs, the configuration loader, the builders)  *)
(* have specifications of their own, which leave the logger untouched.     *)
(***************************************************************************)
EXTENDS Integers, Sequences, FiniteSets, TLC

VARIABLES
    clock,      \* the wall clock read by Utc::now(): [sec, nano]
    logsDir,    \* whether <cwd>/logs exists
    fs,         \* the files under <cwd>/logs: name -> [bytes, created]
    logger,     \* the Logger value: NoLogger, or [config, log_file]
    borrow,     \* the caller holding the exclusive (&mut) borrow of the Logger, 0 if none
    call,       \* per caller: the log call it is executing, or Idle
    lastCall,   \* history: how the log call that ended last ended
    expected,   \* history: the complete lines of the calls accepted by the logger
    nCalls,     \* number of log calls started
    nLoggers,   \* number of Logger::new calls made
    panicked,   \* the process has panicked (unwrap / expect failed)
    probe,      \* a value handed to the two from_u64 functions, and their results
    loaded,     \* a configuration document, and what from_json_file made of it
    built       \* a LogConfig and a RollingConfig under construction by the builders

cfgVars == <<probe, loaded, built>>

vars == <<clock, logsDir, fs, logger, borrow, call, lastCall, expected, nCalls,
          nLoggers, panicked, cfgVars>>

----------------------------------------------------------------------------
(* Bounds of the model *)

MaxOverrides == 3
MaxCalls == 2         \* log calls per behaviour
MaxLoggers == 2       \* Logger::new calls per behaviour
NumCallers == 2       \* concurrent callers holding the logger
LongLen == 600        \* length of the long message

Callers == 1..NumCallers

----------------------------------------------------------------------------
(* Byte strings *)

Str_DEBUG    == <<68, 69, 66, 85, 71>>
Str_INFO     == <<73, 78, 70, 79>>
Str_WARN     == <<87, 65, 82, 78>>
Str_ERROR    == <<69, 82, 82, 79, 82>>
Str_CRITICAL == <<67, 82, 73, 84, 73, 67, 65, 76>>
Str_Logtar   == <<76, 111, 103, 116, 97, 114, 95>>    \* "Logtar_"
Str_log      == <<108, 111, 103>>                     \* "log"
Str_UTC      == <<85, 84, 67>>                        \* "UTC"
Str_Date     == <<50, 48, 50, 52, 45, 48, 49, 45, 48, 49>>   \* "2024-01-01"
Str_DotPrefix == <<97, 112, 112, 46, 118, 49, 95>>    \* "app.v1_"
Str_x        == <<120>>                               \* "x"
Str_y        == <<121>>                               \* "y"
Str_long     == [i \in 1..LongLen |-> 122]            \* "zzz...z"

Colon   == <<58>>
Space   == <<32>>
Newline == <<10>>
Dot     == <<46>>

\* s1 < s2 in the byte-wise lexicographic order of strings
RECURSIVE LexLess(_, _)
LexLess(a, b) ==
    IF b = <<>> THEN FALSE
    ELSE IF a = <<>> THEN TRUE
    ELSE IF Head(a) # Head(b) THEN Head(a) < Head(b)
    ELSE LexLess(Tail(a), Tail(b))

\* the n low decimal digits of v, zero padded ({:0n})
RECURSIVE Digits(_, _)
Digits(v, n) ==
    IF n = 0 THEN <<>> ELSE Digits(v \div 10, n - 1) \o <<48 + (v % 10)>>

\* str::replace(from, to) with from a set of chars and to a single char
ReplaceChars(s, from, to) ==
    [i \in 1..Len(s) |-> IF s[i] \in from THEN to ELSE s[i]]

IsPrefix(p, s) == Len(p) <= Len(s) /\ SubSeq(s, 1, Len(p)) = p

----------------------------------------------------------------------------
(* LogLevel *)

Debug    == 0
Info     == 1
Warn     == 2
Error    == 3
Critical == 4

LogLevel == {Debug, Info, Warn, Error, Critical}

\* impl fmt::Display for LogLevel
LevelDisplay(l) ==
    CASE l = Debug    -> Str_DEBUG
      [] l = Info     -> Str_INFO
      [] l = Warn     -> Str_WARN
      [] l = Error    -> Str_ERROR
      [] l = Critical -> Str_CRITICAL

----------------------------------------------------------------------------
(* RollingSizeOptions, RollingTimeOptions, RollingConfig, LogConfig *)

\* enum RollingSizeOptions: a variant is its discriminant, the size in bytes
OneKB     == 1024
FiveKB    == 5 * 1024
TenKB     == 10 * 1024
TwentyKB  == 20 * 1024
FiftyKB   == 50 * 1024
HundredKB == 100 * 1024
HalfMB    == 512 * 1024
OneMB     == 1024 * 1024
FiveMB    == 5 * 1024 * 1024
TenMB     == 10 * 1024 * 1024
TwentyMB  == 20 * 1024 * 1024
FiftyMB   == 50 * 1024 * 1024
HundredMB == 100 * 1024 * 1024

RollingSizeOptions ==
    {OneKB, FiveKB, TenKB, TwentyKB, FiftyKB, HundredKB, HalfMB, OneMB, FiveMB,
     TenMB, TwentyMB, FiftyMB, HundredMB}

\* enum RollingTimeOptions: a variant is its discriminant, the time in seconds
Minutely == 60
Hourly   == 60 * 60
Daily    == 24 * 60 * 60
Weekly   == 7 * 24 * 60 * 60
Monthly  == 30 * 24 * 60 * 60
Yearly   == 12 * 30 * 24 * 60 * 60

RollingTimeOptions == {Minutely, Hourly, Daily, Weekly, Monthly, Yearly}

\* Result<Self, _>: Ok(option) or Err
Ok(option) == [ok |-> TRUE, option |-> option]
Err        == [ok |-> FALSE, option |-> 0]

\* a from_u64 whose first arm takes every value up to its size
RollingSizeOptions_from_u64_upto(value) ==
    IF value <= OneKB THEN Ok(OneKB)
    ELSE IF value \in RollingSizeOptions THEN Ok(value)
    ELSE Err

\* RollingSizeOptions::from_u64: the arms of the match, in order
RollingSizeOptions_from_u64(value) ==
    IF value = OneKB THEN Ok(OneKB)
    ELSE IF value = FiveKB THEN Ok(FiveKB)
    ELSE IF value = TenKB THEN Ok(TenKB)
    ELSE IF value = TwentyKB THEN Ok(TwentyKB)
    ELSE IF value = FiftyKB THEN Ok(FiftyKB)
    ELSE IF value = HundredKB THEN Ok(HundredKB)
    ELSE IF value = HalfMB THEN Ok(HalfMB)
    ELSE IF value = OneMB THEN Ok(OneMB)
    ELSE IF value = FiveMB THEN Ok(FiveMB)
    ELSE IF value = TenMB THEN Ok(TenMB)
    ELSE IF value = TwentyMB THEN Ok(TwentyMB)
    ELSE IF value = FiftyMB THEN Ok(FiftyMB)
    ELSE IF value = HundredMB THEN Ok(HundredMB)
    ELSE Err

\* a from_u64 that rounds a value between two options down to the lower one
RollingTimeOptions_from_u64_floor(value) ==
    IF value >= Yearly THEN Ok(Yearly)
    ELSE IF value >= Monthly THEN Ok(Monthly)
    ELSE IF value >= Weekly THEN Ok(Weekly)
    ELSE IF value >= Daily THEN Ok(Daily)
    ELSE IF value >= Hourly THEN Ok(Hourly)
    ELSE IF value >= Minutely THEN Ok(Minutely)
    ELSE Err

\* RollingTimeOptions::from_u64: the arms of the match, in order
RollingTimeOptions_from_u64(value) ==
    IF value = Minutely THEN Ok(Minutely)
    ELSE IF value = Hourly THEN Ok(Hourly)
    ELSE IF value = Daily THEN Ok(Daily)
    ELSE IF value = Weekly THEN Ok(Weekly)
    ELSE IF value = Monthly THEN Ok(Monthly)
    ELSE IF value = Yearly THEN Ok(Yearly)
    ELSE Err

\* RollingConfig::new
RollingConfigNew == [time_threshold |-> Hourly, size_threshold |-> FiveMB]

with_time_threshold(rc, time) == [rc EXCEPT !.time_threshold = time]
with_size_threshold(rc, size) == [rc EXCEPT !.size_threshold = size]

\* LogConfig::new
LogConfigNew ==
    [level |-> Info, rolling_config |-> RollingConfigNew, file_prefix |-> Str_Logtar]

with_level(cfg, level)        == [cfg EXCEPT !.level = level]
with_rolling_config(cfg, rc)  == [cfg EXCEPT !.rolling_config = rc]
\* an override that starts again from the defaults
with_file_prefix_fresh(cfg, prefix) == [LogConfigNew EXCEPT !.file_prefix = prefix]

with_file_prefix(cfg, prefix) == [cfg EXCEPT !.file_prefix = prefix]

\* the configurations a caller hands to Logger::new
SmallRolling ==
    with_size_threshold(with_time_threshold(RollingConfigNew, Minutely), OneKB)

Configs ==
    {with_level(LogConfigNew, l) : l \in LogLevel}
    \cup {with_rolling_config(with_level(LogConfigNew, Debug), SmallRolling)}
    \cup {with_file_prefix(LogConfigNew, Str_DotPrefix)}

----------------------------------------------------------------------------
(* The wall clock and the file name of a new log file *)

\* the instants at which the program reads the clock
Instants ==
    {[sec |-> 0, nano |-> 0], [sec |-> 0, nano |-> 500000000],
     [sec |-> Minutely + 1, nano |-> 0]}

Before(a, b) == a.sec < b.sec \/ (a.sec = b.sec /\ a.nano < b.nano)

\* now - created_at, in whole seconds
SecondsBetween(a, b) ==
    IF b.nano >= a.nano THEN b.sec - a.sec ELSE b.sec - a.sec - 1

\* the fraction of a second as chrono prints it: nothing, 3, 6 or 9 digits
Fraction(nano) ==
    IF nano = 0 THEN <<>>
    ELSE IF nano % 1000000 = 0 THEN Dot \o Digits(nano \div 1000000, 3)
    ELSE IF nano % 1000 = 0 THEN Dot \o Digits(nano \div 1000, 6)
    ELSE Dot \o Digits(nano, 9)

\* Utc::now().to_string(): "2024-01-01 00:01:00.500 UTC"
UtcToString(at) ==
    Str_Date \o Space
        \o Digits(at.sec \div 3600, 2) \o Colon
        \o Digits((at.sec \div 60) % 60, 2) \o Colon
        \o Digits(at.sec % 60, 2) \o Fraction(at.nano)
        \o Space \o Str_UTC

\* .replace(['.', ':'], "-").replace(' ', "T")
Timestamp(at) ==
    ReplaceChars(ReplaceChars(UtcToString(at), {46, 58}, 45), {32}, 84)

\* Path::file_stem of a file name: the part before the last '.', the whole name
\* when it has no '.' or only a leading one
FileStem(name) ==
    LET dots == {i \in 1..Len(name) : name[i] = 46}
        last == CHOOSE i \in dots : \A j \in dots : j <= i
    IN  IF dots = {} \/ last = 1 THEN name ELSE SubSeq(name, 1, last - 1)

\* PathBuf::set_extension on the last component of the path
SetExtension(name, ext) == FileStem(name) \o Dot \o ext

\* the file name Logger::new builds under <cwd>/logs
FileName(prefix, at) == SetExtension(prefix \o Timestamp(at), Str_log)

----------------------------------------------------------------------------
(* State *)

NoLogger == [config |-> LogConfigNew, log_file |-> <<>>, open |-> FALSE]

NoFiles == [n \in {} |-> [bytes |-> <<>>, created |-> [sec |-> 0, nano |-> 0]]]

Idle == [pc |-> "idle", log_level |-> Debug, message |-> <<>>, caller_name |-> <<>>]

NoCall == [outcome |-> "none", log_level |-> Debug, level |-> Debug, accepted |-> 0]

\* nothing handed to the pure functions yet
NoProbe  == [size_in |-> 0, time_in |-> 0, size_out |-> <<>>, time_out |-> <<>>]
NoLoad   == [doc |-> <<>>, result |-> <<>>]
NoBuild  == [config |-> LogConfigNew, rolling |-> RollingConfigNew,
             steps |-> <<>>, rsteps |-> <<>>, n |-> 0]

\* the logger before Logger::new
LogInit ==
    /\ clock = [sec |-> 0, nano |-> 0]
    /\ logsDir = FALSE
    /\ fs = NoFiles
    /\ logger = NoLogger
    /\ borrow = 0
    /\ call = [c \in Callers |-> Idle]
    /\ lastCall = NoCall
    /\ expected = <<>>
    /\ nCalls = 0
    /\ nLoggers = 0
    /\ panicked = FALSE

Init ==
    /\ LogInit
    /\ probe = NoProbe
    /\ loaded = NoLoad
    /\ built = NoBuild

\* time passes between the program's steps
Tick(at) ==
    /\ ~panicked
    /\ at \in Instants
    /\ Before(clock, at)
    /\ clock' = at
    /\ UNCHANGED <<logsDir, fs, logger, borrow, call, lastCall, expected, nCalls,
                   nLoggers, panicked>>

\* a logger handed out by shared reference: any caller may enter at any time
ExclusiveBorrow_shared == TRUE

\* &mut self, and the move of a Logger: no caller holds a borrow of it
ExclusiveBorrow == borrow = 0

\* File::create: a new empty file, or an existing one truncated
\* a creation put off until the first write
FileCreate_lazy(files, name, at) == files

\* File::create(path): a new empty file, or the file of that name emptied
FileCreate(files, name, at) ==
    [n \in DOMAIN files \cup {name} |->
        IF n = name THEN [bytes |-> <<>>, created |-> at] ELSE files[n]]

\* Logger::new(config), config being <<>> (None) or <<cfg>> (Some(cfg)); dirOk
\* and fileOk are the outcomes of create_dir_all and File::create.  A logger
\* made earlier is dropped when the new one takes its place.
New(config, dirOk, fileOk) ==
    LET cfg  == IF config = <<>> THEN LogConfigNew ELSE config[1]
        name == FileName(cfg.file_prefix, clock)
    IN  /\ ~panicked
        /\ ExclusiveBorrow
        /\ nLoggers < MaxLoggers
        /\ nLoggers' = nLoggers + 1
        /\ IF ~dirOk
             THEN /\ panicked' = TRUE
                  /\ logger' = NoLogger
                  /\ UNCHANGED <<logsDir, fs, expected>>
           ELSE IF ~fileOk
             THEN /\ panicked' = TRUE
                  /\ logsDir' = TRUE
                  /\ logger' = NoLogger
                  /\ UNCHANGED <<fs, expected>>
           ELSE /\ logsDir' = TRUE
                /\ fs' = FileCreate(fs, name, clock)
                /\ logger' = [config |-> cfg, log_file |-> name, open |-> TRUE]
                /\ expected' = <<>>
                /\ UNCHANGED panicked
        /\ UNCHANGED <<clock, borrow, call, lastCall, nCalls>>

----------------------------------------------------------------------------
(* Logger::log *)

\* Backtrace::force_capture(): the frames of the call stack, innermost first; none
\* where the platform cannot capture one
Frame(i) == <<102, 48 + i>>
Backtraces == {<<>>, [i \in 1..6 |-> Frame(i)]}

CallerDepth == 4

\* bt.frames().iter().rev().nth_back(4): the frame at index 4, if there is one
HasCallerName(bt) == Len(bt) > CallerDepth
CallerName(bt) == bt[CallerDepth + 1]

\* a filter that also drops the messages at the configured level
ShouldEmit_strict(log_level, level) == log_level > level

\* log_level >= self.config.level, by the derived order of LogLevel
ShouldEmit(log_level, level) == log_level >= level

\* format!("{}:{:?} {}\n", log_level, caller_name, message)
FormatLine(log_level, caller_name, message) ==
    LevelDisplay(log_level) \o Colon \o caller_name \o Space \o message \o Newline

\* File::write(buf): Ok(n) with n of the bytes of buf accepted, or Err
WriteResults(buf) ==
    {[ok |-> FALSE, n |-> 0]}
    \cup {[ok |-> TRUE, n |-> k] : k \in {Len(buf), Len(buf) - 1} \cap 1..Len(buf)}

\* the file after the handle's write of the first n bytes of buf
FileWrite(files, name, buf, n) ==
    [files EXCEPT ![name].bytes = @ \o SubSeq(buf, 1, n)]

Messages == {Str_x, Str_long}
ShortMessages == {Str_x, Str_y}

\* entry of log(&mut self, message, log_level): the exclusive borrow is taken, the
\* backtrace captured and the caller's frame looked up
LogEnter(c, message, log_level, bt) ==
    /\ ~panicked
    /\ logger.open
    /\ ExclusiveBorrow
    /\ call[c].pc = "idle"
    /\ nCalls < MaxCalls
    /\ nCalls' = nCalls + 1
    /\ IF HasCallerName(bt)
         THEN /\ borrow' = c
              /\ call' = [call EXCEPT ![c] =
                            [pc |-> "emit", log_level |-> log_level,
                             message |-> message, caller_name |-> CallerName(bt)]]
              /\ UNCHANGED <<lastCall, panicked>>
         ELSE /\ panicked' = TRUE
              /\ lastCall' = [outcome |-> "panic", log_level |-> log_level,
                              level |-> logger.config.level, accepted |-> 0]
              /\ UNCHANGED <<borrow, call>>
    /\ UNCHANGED <<clock, logsDir, fs, logger, expected, nLoggers>>

\* the line the call of caller c is about to emit
CallLine(c) == FormatLine(call[c].log_level, call[c].caller_name, call[c].message)

\* the rest of log: the level check, the write, the return
LogEmit(c) ==
    LET f    == call[c]
        done == [outcome |-> "suppressed", log_level |-> f.log_level,
                 level |-> logger.config.level, accepted |-> 0]
    IN  /\ ~panicked
        /\ f.pc = "emit"
        /\ IF ShouldEmit(f.log_level, logger.config.level)
             THEN \E r \in WriteResults(CallLine(c)) :
                    IF ~r.ok
                      THEN /\ panicked' = TRUE
                           /\ lastCall' = [done EXCEPT !.outcome = "panic"]
                           /\ UNCHANGED <<fs, expected>>
                      ELSE /\ fs' = FileWrite(fs, logger.log_file, CallLine(c), r.n)
                           /\ expected' = expected \o CallLine(c)
                           /\ lastCall' = [done EXCEPT !.outcome = "written",
                                                       !.accepted = r.n]
                           /\ UNCHANGED panicked
             ELSE /\ lastCall' = done
                  /\ UNCHANGED <<fs, expected, panicked>>
        /\ borrow' = 0
        /\ call' = [call EXCEPT ![c] = Idle]
        /\ UNCHANGED <<clock, logsDir, logger, nCalls, nLoggers>>

\* the public methods
debug(c, message, bt)    == LogEnter(c, message, Debug, bt)
info(c, message, bt)     == LogEnter(c, message, Info, bt)
warn(c, message, bt)     == LogEnter(c, message, Warn, bt)
error(c, message, bt)    == LogEnter(c, message, Error, bt)
critical(c, message, bt) == LogEnter(c, message, Critical, bt)

----------------------------------------------------------------------------
(* The specifications *)

\* the log calls of the callers, with messages drawn from msgs
LogCalls(msgs) ==
    \/ \E c \in Callers, m \in msgs, bt \in Backtraces : debug(c, m, bt)
    \/ \E c \in Callers, m \in msgs, bt \in Backtraces : info(c, m, bt)
    \/ \E c \in Callers, m \in msgs, bt \in Backtraces : warn(c, m, bt)
    \/ \E c \in Callers, m \in msgs, bt \in Backtraces : error(c, m, bt)
    \/ \E c \in Callers, m \in msgs, bt \in Backtraces : critical(c, m, bt)
    \/ \E c \in Callers : LogEmit(c)

OptionConfigs == {<<>>} \cup {<<c>> : c \in Configs}

\* a process that makes up to MaxLoggers loggers, one after the other, and logs
\* short and long messages
Next ==
    /\ \/ \E at \in Instants : Tick(at)
       \/ \E config \in OptionConfigs, dirOk, fileOk \in BOOLEAN :
             New(config, dirOk, fileOk)
       \/ LogCalls(Messages)
    /\ UNCHANGED cfgVars

Spec == Init /\ [][Next]_vars

\* a process that makes one logger and logs short messages to it
NextOne ==
    /\ \/ \E at \in Instants : Tick(at)
       \/ \E config \in OptionConfigs, dirOk, fileOk \in BOOLEAN :
             nLoggers = 0 /\ New(config, dirOk, fileOk)
       \/ LogCalls(ShortMessages)
    /\ UNCHANGED cfgVars

SpecOne == Init /\ [][NextOne]_vars

logVars == <<clock, logsDir, fs, logger, borrow, call, lastCall, expected, nCalls,
             nLoggers, panicked>>

----------------------------------------------------------------------------
(* The threshold catalogs: from_u64 applied to values around the options *)

Around(options) == options \cup {o - 1 : o \in options} \cup {o + 1 : o \in options}

SizeInputs == Around(RollingSizeOptions) \cup {0, 999, 1000, 2048, 1000000}
TimeInputs == Around(RollingTimeOptions) \cup {0, 1, 100, 1000}

InitCatalog ==
    /\ LogInit
    /\ probe \in {[NoProbe EXCEPT !.size_in = s, !.time_in = t] :
                     s \in SizeInputs, t \in TimeInputs}
    /\ loaded = NoLoad
    /\ built = NoBuild

SizeFromU64 ==
    /\ probe.size_out = <<>>
    /\ probe' = [probe EXCEPT !.size_out = <<RollingSizeOptions_from_u64(probe.size_in)>>]
    /\ UNCHANGED <<logVars, loaded, built>>

TimeFromU64 ==
    /\ probe.time_out = <<>>
    /\ probe' = [probe EXCEPT !.time_out = <<RollingTimeOptions_from_u64(probe.time_in)>>]
    /\ UNCHANGED <<logVars, loaded, built>>

NextCatalog == SizeFromU64 \/ TimeFromU64

SpecCatalog == InitCatalog /\ [][NextCatalog]_vars

----------------------------------------------------------------------------
(* Steps of a log call, as seen in a pair of states *)

\* caller c returns from log without a panic
Returns(c) == call[c].pc = "emit" /\ call'[c].pc = "idle" /\ ~panicked'

\* the call caller c is executing is at or above the configured level
Accepted(c) == call[c].log_level >= logger.config.level

ActiveBytes == fs[logger.log_file].bytes

RollingSize == logger.config.rolling_config.size_threshold
RollingTime == logger.config.rolling_config.time_threshold

\* a + secs seconds
Later(a, secs) == [sec |-> a.sec + secs, nano |-> a.nano]

----------------------------------------------------------------------------
(* C1: a log call at level M that returns has appended to the log file if and
   only if M >= L, L the configured level, under Debug < Info < Warn < Error <
   Critical; what it appends is the beginning of its line. *)
C1_LevelFilter ==
    [][\A c \in Callers :
          Returns(c) =>
             /\ (fs' # fs) <=> (call[c].log_level >= logger.config.level)
             /\ fs' # fs =>
                  /\ Len(fs'[logger.log_file].bytes) > Len(ActiveBytes)
                  /\ IsPrefix(SubSeq(fs'[logger.log_file].bytes, Len(ActiveBytes) + 1,
                                     Len(fs'[logger.log_file].bytes)), CallLine(c))
                  /\ IsPrefix(ActiveBytes, fs'[logger.log_file].bytes)]_vars

\* a call at exactly the configured level has been written, after one below it
\* was suppressed
C1_Witness ==
    /\ lastCall.outcome = "written"
    /\ lastCall.log_level = Warn
    /\ lastCall.level = Warn
    /\ nCalls = 2
    /\ Len(fs[logger.log_file].bytes) = lastCall.accepted

----------------------------------------------------------------------------
(* C2: on every accepted log call, if current_size + line_length exceeds the
   size threshold or now - created_at has reached the time threshold, the
   logger rotates (a new active file under a new name, created now, holding
   only this line; the old file left as it was); otherwise there is no rotation
   and the line goes to the current file. *)
RotationDue(c) ==
    \/ Len(ActiveBytes) + Len(CallLine(c)) > RollingSize
    \/ SecondsBetween(fs[logger.log_file].created, clock) >= RollingTime

C2_RotateWhenDue ==
    [][\A c \in Callers :
          (Returns(c) /\ Accepted(c)) =>
             IF RotationDue(c)
               THEN /\ logger'.log_file # logger.log_file
                    /\ logger'.log_file \in DOMAIN fs'
                    /\ fs'[logger'.log_file].created = clock
                    /\ IsPrefix(fs'[logger'.log_file].bytes, CallLine(c))
                    /\ fs'[logger.log_file] = fs[logger.log_file]
               ELSE /\ logger' = logger
                    /\ IsPrefix(ActiveBytes, fs'[logger.log_file].bytes)
                    /\ Len(fs'[logger.log_file].bytes) > Len(ActiveBytes)]_vars

(* C3: with every line at most as long as the size threshold T, the active file
   never holds more than T bytes once a log call has completed. *)
C3_SizeBound ==
    (logger.open /\ \A c \in Callers : call[c].pc = "idle")
        => Len(ActiveBytes) <= RollingSize

(* C4: after the rotation check of a log call, created_at <= now <=
   created_at + time threshold holds for the active file the line is written
   to. *)
C4_AgeBound ==
    [][\A c \in Callers :
          (Returns(c) /\ Accepted(c)) =>
             LET f == fs'[logger'.log_file]
             IN  /\ ~Before(clock, f.created)
                 /\ ~Before(Later(f.created, RollingTime), clock)]_vars

(* C5: every accepted log call leaves its complete line (level, caller id,
   message, newline) contiguously in exactly one log file, also when the write
   accepts fewer bytes than requested. *)
C5_WholeLine ==
    [][\A c \in Callers :
          (Returns(c) /\ Accepted(c)) =>
             \E n \in DOMAIN fs' :
                /\ fs'[n].bytes =
                      (IF n \in DOMAIN fs THEN fs[n].bytes ELSE <<>>) \o CallLine(c)
                /\ \A m \in DOMAIN fs \ {n} : fs'[m] = fs[m]]_vars

(* C6: the log calls of concurrent callers run one at a time from entry to
   return: never are two callers inside log together, a caller inside log holds
   the borrow and finds the logger's file open and present, and no log call
   creates a file (the files are those the constructions made). *)
InLog == {c \in Callers : call[c].pc # "idle"}

C6_OneAtATime ==
    /\ Cardinality(InLog) <= 1
    /\ \A c \in InLog : borrow = c /\ logger.open /\ logger.log_file \in DOMAIN fs
    /\ InLog = {} => borrow = 0
    /\ Cardinality(DOMAIN fs) <= nLoggers

\* one caller is inside log, after another caller's call was written
C6_Witness ==
    /\ \E c \in Callers : call[c].pc = "emit" /\ borrow = c
    /\ lastCall.outcome = "written"
    /\ nCalls = 2

(* C7: a log call below the configured level returns with no I/O and no
   failure: it does not panic, and the files and the logger are as before. *)
C7_SuppressedIsSilent ==
    [][/\ (nCalls' = nCalls + 1 /\ panicked')
              => lastCall'.log_level >= lastCall'.level
       /\ \A c \in Callers :
             (call[c].pc = "emit" /\ call'[c].pc = "idle" /\ ~Accepted(c))
                => (~panicked' /\ fs' = fs /\ logger' = logger)]_vars

(* C8: the log file of a logger holds exactly the lines of its accepted calls,
   one complete line '<LEVEL>:<caller-id> <message>\n' per call, in the order of
   the calls. *)
C8_ExactLines ==
    (logger.open /\ \A c \in Callers : call[c].pc = "idle")
        => ActiveBytes = expected

(* C9: two successive file creations under the same prefix produce two distinct
   file names, the later one lexicographically greater. *)
C9_NamesIncrease ==
    [][(nLoggers' = nLoggers + 1 /\ logger.open /\ logger'.open
          /\ logger'.config.file_prefix = logger.config.file_prefix)
         => LexLess(logger.log_file, logger'.log_file)]_vars

(* C10: the log file is named exactly <file_prefix><timestamp>.log, the prefix
   verbatim (also one holding a '.'), the timestamp being the creation instant
   with ':' and '.' replaced by '-'. *)
C10_FileName ==
    logger.open =>
        logger.log_file =
            logger.config.file_prefix \o Timestamp(fs[logger.log_file].created)
                \o Dot \o Str_log

----------------------------------------------------------------------------
(* The configuration loader: LogConfig::from_json_file, RollingConfig::from_json *)

\* serde_json::Value: a number, a string, or an object (its entries as
\* <<key, value>> pairs in the order the map iterates them)
JNum(n)       == [t |-> "number", n |-> n, s |-> <<>>, o |-> <<>>]
JStr(str)     == [t |-> "string", n |-> 0, s |-> str, o |-> <<>>]
JObj(entries) == [t |-> "object", n |-> 0, s |-> <<>>, o |-> entries]

\* Value::as_u64, as_str, as_object: Some as <<x>>, None as <<>>
as_u64(v)    == IF v.t = "number" /\ v.n >= 0 THEN <<v.n>> ELSE <<>>
as_str(v)    == IF v.t = "string" THEN <<v.s>> ELSE <<>>
as_object(v) == IF v.t = "object" THEN <<v.o>> ELSE <<>>

\* how a call ends: it returns its value, or it panics with a message
Returned(value) == [kind |-> "Self", value |-> <<value>>, msg |-> ""]
Panicked(msg)   == [kind |-> "panic", value |-> <<>>, msg |-> msg]

\* a from_u64 that counts the levels from one
LogLevel_from_u64_fromOne(num) ==
    IF num = 1 THEN Ok(Debug)
    ELSE IF num = 2 THEN Ok(Info)
    ELSE IF num = 3 THEN Ok(Warn)
    ELSE IF num = 4 THEN Ok(Error)
    ELSE IF num = 5 THEN Ok(Critical)
    ELSE Err

\* LogLevel::from_u64
LogLevel_from_u64(num) ==
    IF num = 0 THEN Ok(Debug)
    ELSE IF num = 1 THEN Ok(Info)
    ELSE IF num = 2 THEN Ok(Warn)
    ELSE IF num = 3 THEN Ok(Error)
    ELSE IF num = 4 THEN Ok(Critical)
    ELSE Err

\* the loop of RollingConfig::from_json over the entries still to visit
RECURSIVE RollingConfig_from_json_loop(_, _)
RollingConfig_from_json_loop(keys, rolling_config) ==
    IF keys = <<>> THEN Returned(rolling_config)
    ELSE LET k == keys[1][1]
             v == keys[1][2]
         IN  IF k = "size_threshold"
               THEN IF as_u64(v) = <<>>
                      THEN Panicked("expexted size threshold to be number")
                    ELSE IF ~RollingSizeOptions_from_u64(as_u64(v)[1]).ok
                      THEN Panicked("Value does not match any known size option")
                    ELSE RollingConfig_from_json_loop(Tail(keys),
                           with_size_threshold(rolling_config,
                               RollingSizeOptions_from_u64(as_u64(v)[1]).option))
             ELSE IF k = "time_threshold"
               THEN IF as_u64(v) = <<>>
                      THEN Panicked("expexted size threshold to be number")
                    ELSE IF ~RollingTimeOptions_from_u64(as_u64(v)[1]).ok
                      THEN Panicked("Value does not match any known time option")
                    ELSE RollingConfig_from_json_loop(Tail(keys),
                           with_time_threshold(rolling_config,
                               RollingTimeOptions_from_u64(as_u64(v)[1]).option))
             ELSE RollingConfig_from_json_loop(Tail(keys), rolling_config)

\* RollingConfig::from_json
RollingConfig_from_json(json_value) ==
    IF as_object(json_value) = <<>>
      THEN Panicked("Cannot convert JSON to Dictionary")
      ELSE RollingConfig_from_json_loop(as_object(json_value)[1], RollingConfigNew)

\* the loop of LogConfig::from_json_file over the entries still to visit
RECURSIVE from_json_file_loop(_, _)
from_json_file_loop(keys, config) ==
    IF keys = <<>> THEN Returned(config)
    ELSE LET k == keys[1][1]
             v == keys[1][2]
         IN  IF k = "level"
               THEN IF as_u64(v) = <<>>
                      THEN Panicked("expexted config level to be number")
                    ELSE IF ~LogLevel_from_u64(as_u64(v)[1]).ok
                      THEN Panicked("Expected log level to be in range 0..=4")
                    ELSE from_json_file_loop(Tail(keys),
                           with_level(config, LogLevel_from_u64(as_u64(v)[1]).option))
             ELSE IF k = "rolling_config"
               THEN IF RollingConfig_from_json(v).kind = "panic"
                      THEN RollingConfig_from_json(v)
                      ELSE from_json_file_loop(Tail(keys),
                             with_rolling_config(config, RollingConfig_from_json(v).value[1]))
             ELSE IF k = "file_prefix"
               THEN IF as_str(v) = <<>>
                      THEN Panicked("Expected file prefix to be a string")
                      ELSE from_json_file_loop(Tail(keys),
                             with_file_prefix(config, as_str(v)[1]))
             ELSE from_json_file_loop(Tail(keys), config)

\* LogConfig::from_json_file on a file that is absent, is not JSON, or holds
\* the JSON value doc
from_json_file(file, doc) ==
    IF file = "absent" THEN Panicked("LogLevel reading config")
    ELSE IF file = "malformed" THEN Panicked("called Result::unwrap() on an Err value")
    ELSE IF as_object(doc) = <<>> THEN Panicked("Cannot convert JSON to Dictionary")
    ELSE from_json_file_loop(as_object(doc)[1], LogConfigNew)

\* the entries of a map in every order an iteration can take
RECURSIVE Orderings(_)
Orderings(entries) ==
    IF entries = {} THEN {<<>>}
    ELSE UNION {{<<e>> \o seq : seq \in Orderings(entries \ {e})} : e \in entries}

\* a key that is absent, or present with one of the values
Entry(key, values) == {{}} \cup {{<<key, v>>} : v \in values}

LevelValues  == {JNum(n) : n \in -1..5} \cup {JStr(Str_x)}
PrefixValues == {JStr(Str_x), JNum(1)}
SizeValues   == {JNum(OneKB), JNum(999)}
TimeValues   == {JNum(Minutely), JNum(Minutely + 1)}

RollingValues ==
    {JNum(3)} \cup
    UNION {{JObj(o) : o \in Orderings(sz \cup tm \cup un)} :
              sz \in Entry("size_threshold", SizeValues),
              tm \in Entry("time_threshold", TimeValues),
              un \in Entry("unit", {JStr(Str_y)})}

\* the file to load: absent, not JSON, or holding the JSON value doc
ConfigFile(file, doc) == [NoLoad EXCEPT !.doc = <<[file |-> file, doc |-> doc]>>]

InitLoad ==
    /\ LogInit
    /\ probe = NoProbe
    /\ built = NoBuild
    /\ \/ \E lv \in Entry("level", LevelValues),
             rc \in Entry("rolling_config", RollingValues),
             fp \in Entry("file_prefix", PrefixValues),
             ot \in Entry("colour", {JStr(Str_y)}) :
             \E o \in Orderings(lv \cup rc \cup fp \cup ot) :
                loaded = ConfigFile("json", JObj(o))
       \/ loaded = ConfigFile("json", JNum(7))
       \/ \E f \in {"absent", "malformed"} : loaded = ConfigFile(f, JNum(0))

\* the program calls LogConfig::from_json_file at startup
Load ==
    /\ loaded.result = <<>>
    /\ ~panicked
    /\ loaded' = [loaded EXCEPT
                     !.result = <<from_json_file(loaded.doc[1].file, loaded.doc[1].doc)>>]
    /\ panicked' = (loaded'.result[1].kind = "panic")
    /\ UNCHANGED <<clock, logsDir, fs, logger, borrow, call, lastCall, expected, nCalls,
                   nLoggers, probe, built>>

\* the program hands the loaded configuration to Logger::new
NewLoaded(dirOk, fileOk) ==
    /\ loaded.result # <<>>
    /\ loaded.result[1].kind = "Self"
    /\ nLoggers = 0
    /\ New(<<loaded.result[1].value[1]>>, dirOk, fileOk)
    /\ UNCHANGED cfgVars

NextLoad ==
    \/ Load
    \/ \E dirOk, fileOk \in BOOLEAN : NewLoaded(dirOk, fileOk)

SpecLoad == InitLoad /\ [][NextLoad]_vars

----------------------------------------------------------------------------
(* The builders: LogConfig::new().with_..., RollingConfig::new().with_... *)

\* built.config and built.rolling are the two values under construction;
\* steps and rsteps list the overrides applied to each as <<field, value>>
Override(field, value) == <<field, value>>

BuildMore == built.n < MaxOverrides

WithLevel(level) ==
    /\ BuildMore
    /\ built' = [built EXCEPT !.config = with_level(@, level),
                              !.steps = Append(@, Override("level", level)),
                              !.n = @ + 1]
    /\ UNCHANGED <<logVars, probe, loaded>>

WithFilePrefix(prefix) ==
    /\ BuildMore
    /\ built' = [built EXCEPT !.config = with_file_prefix(@, prefix),
                              !.steps = Append(@, Override("file_prefix", prefix)),
                              !.n = @ + 1]
    /\ UNCHANGED <<logVars, probe, loaded>>

\* with_rolling_config takes the RollingConfig built so far by value; the
\* next one starts from RollingConfig::new()
WithRollingConfig ==
    /\ BuildMore
    /\ built' = [built EXCEPT !.config = with_rolling_config(@, built.rolling),
                              !.steps = Append(@, Override("rolling_config", built.rolling)),
                              !.rolling = RollingConfigNew,
                              !.rsteps = <<>>,
                              !.n = @ + 1]
    /\ UNCHANGED <<logVars, probe, loaded>>

WithSizeThreshold(size) ==
    /\ BuildMore
    /\ built' = [built EXCEPT !.rolling = with_size_threshold(@, size),
                              !.rsteps = Append(@, Override("size_threshold", size)),
                              !.n = @ + 1]
    /\ UNCHANGED <<logVars, probe, loaded>>

WithTimeThreshold(time) ==
    /\ BuildMore
    /\ built' = [built EXCEPT !.rolling = with_time_threshold(@, time),
                              !.rsteps = Append(@, Override("time_threshold", time)),
                              !.n = @ + 1]
    /\ UNCHANGED <<logVars, probe, loaded>>

NextBuilder ==
    \/ \E level \in LogLevel : WithLevel(level)
    \/ \E prefix \in {Str_x, Str_DotPrefix} : WithFilePrefix(prefix)
    \/ WithRollingConfig
    \/ \E size \in {OneKB, TenMB} : WithSizeThreshold(size)
    \/ \E time \in {Minutely, Daily} : WithTimeThreshold(time)

SpecBuilder == Init /\ [][NextBuilder]_vars

----------------------------------------------------------------------------
(* C11: RollingSizeOptions::from_u64 is exact catalog membership: for each of
   the 13 catalog values, in bytes, it returns the option whose byte value is
   that value, and for every other value, also one close to an option such as
   2048, it returns an error. *)
C11_SizeCatalog ==
    probe.size_out # <<>> =>
        IF probe.size_in \in {1024, 5120, 10240, 20480, 51200, 102400, 524288, 1048576,
                              5242880, 10485760, 20971520, 52428800, 104857600}
          THEN probe.size_out[1].ok /\ probe.size_out[1].option = probe.size_in
          ELSE ~probe.size_out[1].ok

\* from_u64 has been applied to 2048 and has refused it
C11_Witness ==
    probe.size_in = 2048 /\ probe.size_out # <<>> /\ ~probe.size_out[1].ok

(* C12: RollingTimeOptions::from_u64 is exact catalog membership: for each of
   60, 3600, 86400, 604800, 2592000, 31104000 seconds it returns the option
   with that value, and for every other value it returns an error. *)
C12_TimeCatalog ==
    probe.time_out # <<>> =>
        IF probe.time_in \in {60, 3600, 86400, 604800, 2592000, 31104000}
          THEN probe.time_out[1].ok /\ probe.time_out[1].option = probe.time_in
          ELSE ~probe.time_out[1].ok

\* from_u64 has been applied to a value one above an option and has refused it
C12_Witness ==
    probe.time_in = 3601 /\ probe.time_out # <<>> /\ ~probe.time_out[1].ok

----------------------------------------------------------------------------
(* Reading a document by key, as the claims about the loader read it *)

HasKey(entries, key) == \E i \in 1..Len(entries) : entries[i][1] = key
Get(entries, key)    == entries[CHOOSE i \in 1..Len(entries) : entries[i][1] = key][2]

\* the document and the outcome of the load that has taken place
LoadedDoc     == loaded.doc[1].doc
LoadOutcome   == loaded.result[1]
RollingDoc    == Get(LoadedDoc.o, "rolling_config")

\* the document is a map, and every recognized key in it has a value of its domain
ValidDocument ==
    /\ loaded.doc[1].file = "json"
    /\ LoadedDoc.t = "object"
    /\ HasKey(LoadedDoc.o, "level") =>
          /\ Get(LoadedDoc.o, "level").t = "number"
          /\ Get(LoadedDoc.o, "level").n \in 0..4
    /\ HasKey(LoadedDoc.o, "file_prefix") => Get(LoadedDoc.o, "file_prefix").t = "string"
    /\ HasKey(LoadedDoc.o, "rolling_config") =>
          /\ RollingDoc.t = "object"
          /\ HasKey(RollingDoc.o, "size_threshold") =>
                /\ Get(RollingDoc.o, "size_threshold").t = "number"
                /\ Get(RollingDoc.o, "size_threshold").n \in RollingSizeOptions
          /\ HasKey(RollingDoc.o, "time_threshold") =>
                /\ Get(RollingDoc.o, "time_threshold").t = "number"
                /\ Get(RollingDoc.o, "time_threshold").n \in RollingTimeOptions

\* the document is a map with a level that is a number outside 0..4
LevelOutOfRange ==
    /\ loaded.doc[1].file = "json"
    /\ LoadedDoc.t = "object"
    /\ HasKey(LoadedDoc.o, "level")
    /\ Get(LoadedDoc.o, "level").t = "number"
    /\ Get(LoadedDoc.o, "level").n \notin 0..4

\* the document is a map whose rolling_config holds a threshold outside its catalog
ThresholdOutOfCatalog ==
    /\ loaded.doc[1].file = "json"
    /\ LoadedDoc.t = "object"
    /\ HasKey(LoadedDoc.o, "rolling_config")
    /\ RollingDoc.t = "object"
    /\ \/ /\ HasKey(RollingDoc.o, "size_threshold")
          /\ Get(RollingDoc.o, "size_threshold").t = "number"
          /\ Get(RollingDoc.o, "size_threshold").n \notin RollingSizeOptions
       \/ /\ HasKey(RollingDoc.o, "time_threshold")
          /\ Get(RollingDoc.o, "time_threshold").t = "number"
          /\ Get(RollingDoc.o, "time_threshold").n \notin RollingTimeOptions

(* C13: loading a valid configuration document returns a config in which each
   recognized key that is present is set (level n to the n-th of Debug, Info,
   Warn, Error, Critical; file_prefix; the two thresholds of rolling_config)
   and each absent key has its default (Info, 5MB, 1 hour, "Logtar_"), at the
   top level and inside rolling_config; other keys change nothing. *)
C13_LoadSetsPresentKeys ==
    (loaded.result # <<>> /\ ValidDocument) =>
        /\ LoadOutcome.kind = "Self"
        /\ LoadOutcome.value[1].level =
              IF HasKey(LoadedDoc.o, "level")
                THEN <<Debug, Info, Warn, Error, Critical>>[Get(LoadedDoc.o, "level").n + 1]
                ELSE Info
        /\ LoadOutcome.value[1].file_prefix =
              IF HasKey(LoadedDoc.o, "file_prefix")
                THEN Get(LoadedDoc.o, "file_prefix").s
                ELSE <<76, 111, 103, 116, 97, 114, 95>>
        /\ LoadOutcome.value[1].rolling_config.size_threshold =
              IF HasKey(LoadedDoc.o, "rolling_config") /\ HasKey(RollingDoc.o, "size_threshold")
                THEN Get(RollingDoc.o, "size_threshold").n
                ELSE 5242880
        /\ LoadOutcome.value[1].rolling_config.time_threshold =
              IF HasKey(LoadedDoc.o, "rolling_config") /\ HasKey(RollingDoc.o, "time_threshold")
                THEN Get(RollingDoc.o, "time_threshold").n
                ELSE 3600

\* {"level":2} has been loaded: level Warn, default rolling policy and prefix
C13_Witness ==
    /\ loaded.result # <<>>
    /\ LoadedDoc = JObj(<< <<"level", JNum(2)>> >>)
    /\ LoadOutcome.kind = "Self"
    /\ LoadOutcome.value[1] =
          [level |-> Warn, rolling_config |-> RollingConfigNew, file_prefix |-> Str_Logtar]

(* C14: loading a document whose level is outside 0..4 ends with the error
   ConfigError::InvalidLevel returned to the caller and no LogConfig, and no
   log file has been created by then. *)
C14_InvalidLevelReported ==
    (loaded.result # <<>> /\ LevelOutOfRange) =>
        /\ LoadOutcome.kind = "ConfigError"
        /\ LoadOutcome.msg = "InvalidLevel"
        /\ LoadOutcome.value = <<>>
        /\ fs = NoFiles

(* C15: loading a document whose rolling_config holds a size_threshold or a
   time_threshold outside its catalog ends with the error InvalidThreshold
   and no LogConfig, whatever the other keys are. *)
C15_InvalidThresholdReported ==
    (loaded.result # <<>> /\ ThresholdOutOfCatalog) =>
        /\ LoadOutcome.kind = "ConfigError"
        /\ LoadOutcome.msg = "InvalidThreshold"
        /\ LoadOutcome.value = <<>>

----------------------------------------------------------------------------
(* C16: a log call does not fail when the captured call stack has no frame at
   the inspected depth: whatever the backtrace, a call that enters log goes
   on to its level check (from where an accepted call writes its line and a
   suppressed call returns) and the process does not panic. *)
C16_NoCallerNoFailure ==
    [][nCalls' = nCalls + 1 =>
          /\ ~panicked'
          /\ \E c \in Callers : call[c].pc = "idle" /\ call'[c].pc = "emit"]_vars

----------------------------------------------------------------------------
(* C17: Logger::new either fails, and then there is no logger and no file has
   been made, or it has made the 'logs' directory and an empty file that the
   new logger holds open, before any log call; a log call is accepted only by
   a logger that exists. *)
C17_EagerOpen ==
    [][/\ nLoggers' = nLoggers + 1 =>
             IF panicked'
               THEN ~logger'.open /\ fs' = fs
               ELSE /\ logsDir'
                    /\ logger'.open
                    /\ logger'.log_file \in DOMAIN fs'
                    /\ fs'[logger'.log_file].bytes = <<>>
                    /\ nCalls' = 0
       /\ nCalls' # nCalls => (logger.open /\ ~panicked)]_vars

\* the directory was created, the file could not be: no logger, no log call
C17_Witness ==
    /\ nLoggers = 1
    /\ panicked
    /\ logsDir
    /\ ~logger.open
    /\ fs = NoFiles
    /\ nCalls = 0

----------------------------------------------------------------------------
\* the value of the last override of a field among the steps, or its default
LastOverride(steps, field, default) ==
    IF \E i \in 1..Len(steps) : steps[i][1] = field
      THEN steps[CHOOSE i \in 1..Len(steps) :
                    /\ steps[i][1] = field
                    /\ \A j \in (i + 1)..Len(steps) : steps[j][1] # field][2]
      ELSE default

(* C18: starting from the defaults (Info, 5MB / 1 hour, "Logtar_"), after any
   sequence of builder overrides each field holds the value of the last
   override applied to it, or its default if there was none: with_level,
   with_rolling_config and with_file_prefix on the LogConfig, and
   with_size_threshold and with_time_threshold on the RollingConfig, each
   change their own field only. *)
C18_LastOverrideWins ==
    /\ built.config.level = LastOverride(built.steps, "level", 1)
    /\ built.config.file_prefix =
          LastOverride(built.steps, "file_prefix", <<76, 111, 103, 116, 97, 114, 95>>)
    /\ built.config.rolling_config =
          LastOverride(built.steps, "rolling_config",
                       [time_threshold |-> 3600, size_threshold |-> 5242880])
    /\ built.rolling.size_threshold = LastOverride(built.rsteps, "size_threshold", 5242880)
    /\ built.rolling.time_threshold = LastOverride(built.rsteps, "time_threshold", 3600)

\* with_level, then with_file_prefix, then with_level with another level
C18_Witness ==
    /\ Len(built.steps) = 3
    /\ built.steps[1][1] = "level"
    /\ built.steps[2][1] = "file_prefix"
    /\ built.steps[3][1] = "level"
    /\ built.steps[1][2] # built.steps[3][2]
    /\ built.config.level = built.steps[3][2]
    /\ built.config.file_prefix = built.steps[2][2]
    /\ built.config.rolling_config = RollingConfigNew

----------------------------------------------------------------------------
(* C19: no step of the program, the creation of a new active file included,
   removes, truncates or overwrites a file under 'logs' that holds lines:
   what such a file holds stays at the beginning of what it holds afterwards. *)
C19_NoDataLoss ==
    [][\A n \in DOMAIN fs :
          fs[n].bytes # <<>> =>
             /\ n \in DOMAIN fs'
             /\ IsPrefix(fs[n].bytes, fs'[n].bytes)]_vars

====
